---- MODULE Spec2Model ----
(***************************************************************************)
(* Outgoing sync translation of mSupply mobile                             *)
(* (src/src/sync/outgoingSyncUtils.js): generateSyncJson turns a sync-out  *)
(* record into the json envelope the primary server expects,               *)
(* generateSyncData projects the local record into its upstream form,      *)
(* safeGet walks a dotted path and marks getter faults as deletable, and   *)
(* getDateString / getTimeString render dates.                             *)
(*                                                                         *)
(* JavaScript values are tagged records ([t |-> "string", s |-> ...]), so  *)
(* undefined, null, strings, numbers, dates and objects stay distinct.     *)
(* Error messages are sequences of text parts: the literal pieces of a     *)
(* template and the values interpolated into it, in order.                 *)
(***************************************************************************)
EXTENDS Integers, Sequences, FiniteSets, Bags, TLC

VARIABLES
  database,      \* the local store: a bag of entities (Realm objects)
  settings,      \* the local settings: key -> value
  tzOffset,      \* minutes the local time zone is ahead of UTC
  result,        \* the outcome of the latest generateSyncJson call
  prevResult,    \* the outcome of the call before it, when it translated the
                 \* same record against the same store and settings
  dateCall       \* the latest direct getDateString call: input and output

vars == <<database, settings, tzOffset, result, prevResult, dateCall>>

----------------------------------------------------------------------------
(* JavaScript values *)

Undefined == [t |-> "undefined"]
Null == [t |-> "null"]
Str(s) == [t |-> "string", s |-> s]
Num(n) == [t |-> "number", n |-> n]
Bool(b) == [t |-> "boolean", b |-> b]
\* a Date, held as its local wall-clock reading (the instant is that reading
\* minus tzOffset)
DateV(y, m, d, hh, mi, ss) ==
  [t |-> "date", y |-> y, m |-> m, d |-> d, hh |-> hh, mi |-> mi, ss |-> ss]

IsNullish(v) == v.t \in {"undefined", "null"}

\* !v
Falsy(v) ==
  \/ IsNullish(v)
  \/ v.t = "string" /\ v.s = ""
  \/ v.t = "number" /\ v.n = 0
  \/ v.t = "boolean" /\ ~v.b

\* String(v) and `${v}`
JsString(v) ==
  CASE v.t = "undefined" -> "undefined"
    [] v.t = "null" -> "null"
    [] v.t = "string" -> v.s
    [] v.t = "number" -> ToString(v.n)
    [] v.t = "boolean" -> (IF v.b THEN "true" ELSE "false")
    [] OTHER -> "[object Object]"

\* the two ways an expression ends
Ok(v) == [ok |-> TRUE, v |-> v]
Throw(e) == [ok |-> FALSE, error |-> e]

\* an error object as the faulting statement creates it: site is the function
\* and line of that statement, name the error's class
NewError(site, name, message) ==
  [site |-> site, name |-> name, message |-> message,
   canDeleteSyncOut |-> FALSE]

\* obj[name]: a TypeError on undefined and null, undefined for a property the
\* object does not have
GetProp(obj, name, site) ==
  IF IsNullish(obj)
    THEN Throw(NewError(site, "TypeError",
                 <<"Cannot read property '", name, "' of ", JsString(obj)>>))
    ELSE IF name \in DOMAIN obj THEN Ok(obj[name]) ELSE Ok(Undefined)

\* an optional chain, a?.id: undefined for an absent a
OptionalId(ref) == IF Falsy(ref) THEN Undefined ELSE GetProp(ref, "id", "").v

\* a && a.id
AndId(ref) == IF Falsy(ref) THEN ref ELSE GetProp(ref, "id", "").v

Contains(message, part) == \E i \in DOMAIN message : message[i] = part

----------------------------------------------------------------------------
(* Dates *)

IsLeap(y) == (y % 4 = 0 /\ y % 100 # 0) \/ y % 400 = 0

DaysIn(y, m) ==
  IF m = 2 THEN (IF IsLeap(y) THEN 29 ELSE 28)
  ELSE IF m \in {4, 6, 9, 11} THEN 30 ELSE 31

PrevDay(y, m, d) ==
  IF d > 1 THEN <<y, m, d - 1>>
  ELSE IF m > 1 THEN <<y, m - 1, DaysIn(y, m - 1)>>
  ELSE <<y - 1, 12, 31>>

NextDay(y, m, d) ==
  IF d < DaysIn(y, m) THEN <<y, m, d + 1>>
  ELSE IF m < 12 THEN <<y, m + 1, 1>>
  ELSE <<y + 1, 1, 1>>

Pad2(n) == IF n < 10 THEN "0" \o ToString(n) ELSE ToString(n)

Pad4(n) ==
  IF n < 10 THEN "000" \o ToString(n)
  ELSE IF n < 100 THEN "00" \o ToString(n)
  ELSE IF n < 1000 THEN "0" \o ToString(n)
  ELSE ToString(n)

\* the calendar day of the instant in UTC: what Date.prototype.toISOString
\* prints in its first 10 characters
UtcDay(date, tz) ==
  LET utcMinute == date.hh * 60 + date.mi - tz
  IN  IF utcMinute < 0 THEN PrevDay(date.y, date.m, date.d)
      ELSE IF utcMinute >= 24 * 60 THEN NextDay(date.y, date.m, date.d)
      ELSE <<date.y, date.m, date.d>>

\* date.toISOString().slice(0, 10)
IsoDay(date, tz) ==
  LET day == UtcDay(date, tz)
  IN  Pad4(day[1]) \o "-" \o Pad2(day[2]) \o "-" \o Pad2(day[3])

\* getDateString(date); an object that is no Date has no toISOString
getDateString(date, tz) ==
  IF Falsy(date) \/ date.t \notin {"date", "object"}
    THEN Ok(Str("0000-00-00" \o "T00:00:00"))
    ELSE IF date.t = "date"
      THEN Ok(Str(IsoDay(date, tz) \o "T00:00:00"))
      ELSE Throw(NewError("getDateString:253", "TypeError",
                   <<"date.toISOString is not a function">>))

\* getTimeString(date): the local wall-clock time
getTimeString(date) ==
  IF Falsy(date) \/ date.t \notin {"date", "object"}
    THEN Ok(Str("00:00:00"))
    ELSE IF date.t = "date"
      THEN Ok(Str(Pad2(date.hh) \o ":" \o Pad2(date.mi) \o ":" \o Pad2(date.ss)))
      ELSE Throw(NewError("getTimeString:260", "TypeError",
                   <<"date.toTimeString is not a function">>))

----------------------------------------------------------------------------
(* Settings and vocabularies (../settings, ./syncTranslators) *)

THIS_STORE_ID == "ThisStoreID"
SUPPLYING_STORE_NAME_ID == "SupplyingStoreNameID"
SYNC_URL == "SyncURL"
SYNC_SITE_NAME == "SyncSiteName"

\* settings.get(key)
SettingsGet(cfg, key) == cfg[key]

RECORD_TYPES ==
  [ItemBatch |-> "item_line", NumberSequence |-> "number",
   NumberToReuse |-> "number_reuse", Requisition |-> "requisition",
   RequisitionItem |-> "requisition_line", Stocktake |-> "Stock_take",
   StocktakeBatch |-> "Stock_take_lines", Transaction |-> "transact",
   TransactionBatch |-> "trans_line", Item |-> "item"]

SYNC_TYPES == [create |-> "I", update |-> "U", delete |-> "D"]

REQUISITION_STATUSES ==
  [new |-> "sg", suggested |-> "sg", confirmed |-> "cn", finalised |-> "fn"]

REQUISITION_TYPES ==
  [imprest |-> "im", forecast |-> "sh", request |-> "request",
   response |-> "response"]

STATUSES ==
  [confirmed |-> "cn", finalised |-> "fn", new |-> "nw", suggested |-> "sg"]

TRANSACTION_TYPES ==
  [customer_invoice |-> "ci", customer_credit |-> "cc",
   supplier_invoice |-> "si", supplier_credit |-> "sc",
   inventory_adjustment |-> "in"]

TRANSACTION_BATCH_TYPES ==
  [customer_invoice |-> "stock_out", customer_credit |-> "stock_in",
   supplier_invoice |-> "stock_in", supplier_credit |-> "stock_out"]

SEQUENCE_KEYS ==
  [customer_invoice_serial_number |-> "customer_invoice_number",
   requisition_serial_number |-> "requisition_serial_number",
   stocktake_serial_number |-> "stock_take_number"]

\* TABLE.translate(token, INTERNAL_TO_EXTERNAL): the table's entry, and a
\* fault for a token the table does not have
Translate(table, token) ==
  IF token.t = "string" /\ token.s \in DOMAIN table
    THEN Ok(Str(table[token.s]))
    ELSE Throw(NewError("translate", "UnknownVocabularyToken",
                 <<"No translation for ", JsString(token)>>))

\* SEQUENCE_KEYS.translate(key, INTERNAL_TO_EXTERNAL, thisStoreId): the names
\* are scoped by the store
TranslateSequenceKey(token, storeId) ==
  LET r == Translate(SEQUENCE_KEYS, token)
  IN  IF r.ok THEN Ok(Str(r.v.s \o "_for_store_" \o JsString(storeId))) ELSE r

----------------------------------------------------------------------------
(* safeGet *)

\* the loop of safeGet from segment i on: currentPath grows by the segment,
\* then the getter runs, and a getter fault goes through the catch block
\* a catch block that names the path and forgets the mark
Unmarked(error, currentPath) ==
  [error EXCEPT
     !.message = <<"Error on object getter on path \"", currentPath,
                   "\", original message: ">> \o error.message]

\* the catch block of safeGet: the error is marked safe to delete and its
\* message is prefixed with the path reached
MarkDeletable(error, currentPath) ==
  [error EXCEPT
     !.canDeleteSyncOut = TRUE,
     !.message = <<"Error on object getter on path \"", currentPath,
                   "\", original message: ">> \o error.message]

RECURSIVE SafeGetFrom(_, _, _, _)
SafeGetFrom(nestedProp, currentPath, pathSegments, i) ==
  IF i > Len(pathSegments) THEN Ok(nestedProp)
  ELSE
    LET segment == pathSegments[i]
        path == currentPath \o "." \o segment
        got == GetProp(nestedProp, segment, "safeGet:279")
    IN  IF got.ok THEN SafeGetFrom(got.v, path, pathSegments, i + 1)
        ELSE Throw(MarkDeletable(got.error, path))

\* safeGet(record, path); pathSegments is path.split('.')
safeGet(record, pathSegments) == SafeGetFrom(record, "record", pathSegments, 1)

----------------------------------------------------------------------------
(* StocktakeBatch getters (src/src/database/DataTypes/StocktakeBatch.js) *)

StocktakeBatch_itemId(this) ==
  IF Falsy(this.itemBatch) THEN Str("")
  ELSE IF Falsy(this.itemBatch.item) THEN Str("") ELSE this.itemBatch.item.id

StocktakeBatch_itemBatchId(this) ==
  IF Falsy(this.itemBatch) THEN Str("") ELSE this.itemBatch.id

----------------------------------------------------------------------------
(* generateSyncData: one object literal per record type. Its property values
   are evaluated in source order, so the first one that throws ends the
   projection and no object is built. *)

AllOk(rs) == \A i \in DOMAIN rs : rs[i].ok

FirstFailure(rs) ==
  rs[CHOOSE i \in DOMAIN rs : ~rs[i].ok /\ \A j \in 1..(i - 1) : rs[j].ok]

\* String(x)
S(v) == Str(JsString(v))

ItemBatchData(cfg, record, tz) ==
  LET expiry == getDateString(record.expiryDate, tz)
  IN  IF ~expiry.ok THEN expiry
      ELSE Ok([ID |-> record.id,
               store_ID |-> SettingsGet(cfg, THIS_STORE_ID),
               item_ID |-> record.itemId,
               pack_size |-> S(record.packSize),
               expiry_date |-> expiry.v,
               batch |-> record.batch,
               available |-> S(record.numberOfPacks),
               quantity |-> S(record.numberOfPacks),
               stock_on_hand_tot |-> S(record.totalQuantity),
               cost_price |-> S(record.costPrice),
               sell_price |-> S(record.sellPrice),
               total_cost |-> S(Num(record.costPrice.n * record.numberOfPacks.n)),
               name_ID |-> SettingsGet(cfg, SUPPLYING_STORE_NAME_ID)])

NumberSequenceData(cfg, record, tz) ==
  LET thisStoreId == SettingsGet(cfg, THIS_STORE_ID)
      name == TranslateSequenceKey(record.sequenceKey, thisStoreId)
  IN  IF ~name.ok THEN name
      ELSE Ok([ID |-> record.id,
               name |-> name.v,
               value |-> S(record.highestNumberUsed)])

NumberToReuseData(cfg, record, tz) ==
  LET thisStoreId == SettingsGet(cfg, THIS_STORE_ID)
      name == TranslateSequenceKey(record.sequenceKey, thisStoreId)
  IN  IF ~name.ok THEN name
      ELSE Ok([ID |-> record.id,
               name |-> name.v,
               number_to_use |-> S(record.number)])

RequisitionData(cfg, record, tz) ==
  LET entered == getDateString(record.entryDate, tz)
      status == Translate(REQUISITION_STATUSES, record.status)
      type == Translate(REQUISITION_TYPES, record.type)
      rs == <<entered, status, type>>
  IN  IF ~AllOk(rs) THEN FirstFailure(rs)
      ELSE Ok([ID |-> record.id,
               date_entered |-> entered.v,
               user_ID |-> record.enteredById,
               name_ID |-> AndId(record.otherStoreName),
               status |-> status.v,
               daysToSupply |-> S(record.daysToSupply),
               store_ID |-> SettingsGet(cfg, THIS_STORE_ID),
               serial_number |-> record.serialNumber,
               requester_reference |-> record.requesterReference,
               comment |-> record.comment,
               type |-> type.v])

RequisitionItemData(cfg, record, tz) ==
  Ok([ID |-> record.id,
      requisition_ID |-> record.requisitionId,
      item_ID |-> record.itemId,
      stock_on_hand |-> S(record.stockOnHand),
      daily_usage |-> S(record.dailyUsage),
      suggested_quantity |-> S(record.suggestedQuantity),
      actualQuan |-> S(record.suppliedQuantity),
      line_number |-> S(record.sortIndex),
      Cust_stock_order |-> S(record.requiredQuantity),
      comment |-> record.comment])

StocktakeData(cfg, record, tz) ==
  LET date == getDateString(record.stocktakeDate, tz)
      time == getTimeString(record.stocktakeDate)
      status == Translate(STATUSES, record.status)
      created == getDateString(record.createdDate, tz)
      rs == <<date, time, status, created>>
  IN  IF ~AllOk(rs) THEN FirstFailure(rs)
      ELSE Ok([ID |-> record.id,
               Description |-> record.name,
               stock_take_date |-> date.v,
               stock_take_time |-> time.v,
               created_by_ID |-> AndId(record.createdBy),
               status |-> status.v,
               finalised_by_ID |-> AndId(record.finalisedBy),
               invad_additions_ID |-> AndId(record.additions),
               invad_reductions_ID |-> AndId(record.reductions),
               store_ID |-> SettingsGet(cfg, THIS_STORE_ID),
               comment |-> record.comment,
               stock_take_created_date |-> created.v,
               serial_number |-> record.serialNumber])

StocktakeBatchData(cfg, record, tz) ==
  LET expiry == getDateString(record.expiryDate, tz)
  IN  IF ~expiry.ok THEN expiry
      ELSE Ok([ID |-> record.id,
               stock_take_ID |-> AndId(record.stocktake),
               item_line_ID |-> StocktakeBatch_itemBatchId(record),
               snapshot_qty |-> S(record.snapshotNumberOfPacks),
               snapshot_packsize |-> S(record.packSize),
               stock_take_qty |-> S(record.countedNumberOfPacks),
               line_number |-> S(record.sortIndex),
               expiry |-> expiry.v,
               cost_price |-> S(record.costPrice),
               sell_price |-> S(record.sellPrice),
               Batch |-> record.batch,
               item_ID |-> StocktakeBatch_itemId(record)])

\* record.linkedRequisition && record.linkedRequisition.id
\*   ? record.linkedRequisition.id : undefined
LinkedRequisitionId(record) ==
  IF Falsy(AndId(record.linkedRequisition)) THEN Undefined
  ELSE GetProp(record.linkedRequisition, "id", "").v

TransactionData(cfg, record, tz) ==
  LET entry == getDateString(record.entryDate, tz)
      type == Translate(TRANSACTION_TYPES, record.type)
      status == Translate(STATUSES, record.status)
      confirmDate == getDateString(record.confirmDate, tz)
      confirmTime == getTimeString(record.confirmDate)
      rs == <<entry, type, status, confirmDate, confirmTime>>
  IN  IF ~AllOk(rs) THEN FirstFailure(rs)
      ELSE Ok([ID |-> record.id,
               name_ID |-> AndId(record.otherParty),
               invoice_num |-> record.serialNumber,
               comment |-> record.comment,
               entry_date |-> entry.v,
               type |-> type.v,
               status |-> status.v,
               mode |-> Str("store"),
               total |-> S(record.totalPrice),
               their_ref |-> record.theirRef,
               confirm_date |-> confirmDate.v,
               subtotal |-> S(record.totalPrice),
               user_ID |-> AndId(record.enteredBy),
               category_ID |-> AndId(record.category),
               confirm_time |-> confirmTime.v,
               store_ID |-> SettingsGet(cfg, THIS_STORE_ID),
               requisition_ID |-> LinkedRequisitionId(record)])

\* item_line_ID: safeGet(record, 'itemBatch.id')
ItemLineId(record) == safeGet(record, <<"itemBatch", "id">>)

\* transaction_ID: record.transaction.id
TransactionId(record) ==
  GetProp(record.transaction, "id", "generateSyncData:227")

TransactionBatchData(cfg, record, tz) ==
  LET transaction == record.transaction
      transactionId == TransactionId(record)
      expiry == getDateString(record.expiryDate, tz)
      itemLine == ItemLineId(record)
      fromAdjustment ==
        GetProp(transaction, "isInventoryAdjustment", "generateSyncData:242")
      type == IF fromAdjustment.ok
                THEN Translate(TRANSACTION_BATCH_TYPES,
                               GetProp(transaction, "type", "").v)
                ELSE fromAdjustment
      rs == <<transactionId, expiry, itemLine, fromAdjustment, type>>
  IN  IF ~AllOk(rs) THEN FirstFailure(rs)
      ELSE Ok([ID |-> record.id,
               transaction_ID |-> transactionId.v,
               item_ID |-> record.itemId,
               batch |-> record.batch,
               price_extension |-> S(record.totalPrice),
               note |-> record.note,
               cost_price |-> S(record.costPrice),
               sell_price |-> S(record.sellPrice),
               expiry_date |-> expiry.v,
               pack_size |-> S(record.packSize),
               quantity |-> S(record.numberOfPacks),
               item_line_ID |-> itemLine.v,
               line_number |-> S(record.sortIndex),
               item_name |-> record.itemName,
               is_from_inventory_adjustment |-> fromAdjustment.v,
               type |-> type.v])

\* a default case that falls back to an empty object
FallbackShape == Ok([ID |-> Undefined])

\* the default case of the switch
UnsupportedType ==
  Throw(NewError("generateSyncData:247", "Error",
                 <<"Sync out record type not supported.">>))

\* generateSyncData(settings, recordType, record)
generateSyncData(cfg, recordType, record, tz) ==
  CASE recordType = "ItemBatch" -> ItemBatchData(cfg, record, tz)
    [] recordType = "NumberSequence" -> NumberSequenceData(cfg, record, tz)
    [] recordType = "NumberToReuse" -> NumberToReuseData(cfg, record, tz)
    [] recordType = "Requisition" -> RequisitionData(cfg, record, tz)
    [] recordType = "RequisitionItem" -> RequisitionItemData(cfg, record, tz)
    [] recordType = "Stocktake" -> StocktakeData(cfg, record, tz)
    [] recordType = "StocktakeBatch" -> StocktakeBatchData(cfg, record, tz)
    [] recordType = "Transaction" -> TransactionData(cfg, record, tz)
    [] recordType = "TransactionBatch" -> TransactionBatchData(cfg, record, tz)
    [] OTHER -> UnsupportedType

----------------------------------------------------------------------------
(* generateSyncJson *)

CHANGE_TYPES_DELETE == "delete"

\* database.objects(recordType).filtered('id == $0', recordId)
RecordResults(db, recordType, recordId) ==
  [e \in {x \in DOMAIN db : x.table = recordType.s /\ x.id = recordId} |-> db[e]]

\* recordResults.length
Length(recordResults) == BagCardinality(recordResults)

\* a call of a collaborator, as the trace of a translation records it
Event(op, arg) == [op |-> op, arg |-> arg]

\* a handler that throws a new error in place of the one it caught
ThrowFresh(error, message) == NewError(error.site, error.name, message)

\* error.message = ...; throw error: the error caught is the one thrown
Rethrown(error, message) == [error EXCEPT !.message = message]

\* a handler that logs and never reports
NoNotify(error) == <<>>

\* bugsnagClient.notify(error)
Notify(error) == <<[op |-> "notify", arg |-> "error", error |-> error]>>

\* the catch block of generateSyncJson: the message is made helpful for
\* bugsnag, the error is sent there, and the message is made nicer for users
\* before the error is thrown again. notifyThrows: bugsnagClient.notify fails.
Escalate(cfg, syncOutRecord, storeId, error, trace, notifyThrows) ==
  LET siteName == SettingsGet(cfg, SYNC_SITE_NAME)
      syncUrl == SettingsGet(cfg, SYNC_URL)
      originalMessage == error.message
      helpful ==
        <<"SYNC OUT ERROR. siteName: ", JsString(siteName),
          ", serverUrl: ", JsString(syncUrl),
          ", syncOutRecord.id: ", JsString(syncOutRecord.id),
          ", storeId: ", JsString(storeId),
          " changeType: ", JsString(syncOutRecord.changeType),
          ", recordType: ", JsString(syncOutRecord.recordType),
          ", recordId: ", JsString(syncOutRecord.recordId),
          ", message: ">> \o originalMessage
      nicer ==
        <<"There was an error syncing. Contact mSupply mobile support. ">>
          \o originalMessage
      reported == [error EXCEPT !.message = helpful]
      trace2 == trace \o <<Event("settings.get", SYNC_SITE_NAME),
                           Event("settings.get", SYNC_URL)>>
                     \o Notify(reported)
  IN  IF notifyThrows
        THEN [outcome |-> Throw(NewError("bugsnagClient.notify:81",
                                  "ReporterFault", <<"notify failed">>)),
              trace |-> trace2]
        ELSE [outcome |-> Throw(Rethrown(error, nicer)), trace |-> trace2]

\* a duplicate check that is off by one
MoreThanTwo(recordResults) == Length(recordResults) > 2

\* !recordResults || recordResults.length === 0
NoSuchRecord(recordResults) == Length(recordResults) = 0

\* recordResults.length > 1
DuplicateRecords(recordResults) == Length(recordResults) > 1

\* lines 53-91: the record is fetched and projected
Resolve(db, cfg, syncOutRecord, tz, notifyThrows, storeId, syncJson, trace) ==
  LET recordType == syncOutRecord.recordType
      recordId == syncOutRecord.recordId
      recordResults == RecordResults(db, recordType, recordId)
      trace2 == trace \o <<Event("database.objects", recordType.s)>>
  IN  IF syncOutRecord.changeType.s = "delete"
        \* lines 49-51: a deleted record syncs up its ID alone
        THEN [outcome |-> Ok(syncJson @@ [Data |-> [ID |-> recordId]]),
              trace |-> trace]
      ELSE IF NoSuchRecord(recordResults)
        THEN [outcome |-> Throw(NewError("generateSyncJson:57", "Error",
                <<JsString(recordType), " with id = ", JsString(recordId),
                  " missing">>)),
              trace |-> trace2]
      ELSE IF DuplicateRecords(recordResults)
        THEN [outcome |-> Throw(NewError("generateSyncJson:60", "Error",
                <<"Multiple ", JsString(recordType), " records with id = ",
                  JsString(recordId)>>)),
              trace |-> trace2]
      ELSE
        LET record == CHOOSE e \in DOMAIN recordResults : TRUE
            syncData == generateSyncData(cfg, recordType.s, record, tz)
            trace3 == trace2 \o <<Event("generateSyncData",
                                     IF syncData.ok THEN "returned" ELSE "threw")>>
        IN  IF syncData.ok
              THEN [outcome |-> Ok(syncJson @@ [Data |-> syncData.v]),
                    trace |-> trace3]
              ELSE Escalate(cfg, syncOutRecord, storeId, syncData.error,
                            trace3, notifyThrows)

\* !syncOutRecord || !syncOutRecord.isValid()
Missing(syncOutRecord) == Falsy(syncOutRecord) \/ ~syncOutRecord.valid

\* a check that forgets recordId
MalformedButForRecordId(syncOutRecord) ==
  Falsy(syncOutRecord.recordType) \/ Falsy(syncOutRecord.id)

\* !syncOutRecord.recordType || !syncOutRecord.id || !syncOutRecord.recordId
Malformed(syncOutRecord) ==
  \/ Falsy(syncOutRecord.recordType)
  \/ Falsy(syncOutRecord.id)
  \/ Falsy(syncOutRecord.recordId)

\* a test for deletes that never matches
NeverDelete(changeType) == FALSE

\* changeType === CHANGE_TYPES.DELETE
IsDelete(changeType) == changeType.s = CHANGE_TYPES_DELETE

\* generateSyncJson(database, settings, syncOutRecord): what the call ends
\* with (the object returned or the error thrown) and the calls it made
generateSyncJson(db, cfg, syncOutRecord, tz, notifyThrows) ==
  IF Missing(syncOutRecord)
    THEN [outcome |-> Throw(NewError("generateSyncJson:30", "Error",
                              <<"Missing sync out record">>)),
          trace |-> <<>>]
  ELSE IF Malformed(syncOutRecord)
    THEN [outcome |-> Throw(NewError("generateSyncJson:32", "Error",
                              <<"Malformed sync out record">>)),
          trace |-> <<>>]
  ELSE
    LET recordType == syncOutRecord.recordType
        recordId == syncOutRecord.recordId
        changeType == syncOutRecord.changeType
        storeId == SettingsGet(cfg, THIS_STORE_ID)
        externalType == Translate(RECORD_TYPES, recordType)
        syncType == Translate(SYNC_TYPES, changeType)
        trace1 == <<Event("settings.get", THIS_STORE_ID),
                    Event("translate", "RECORD_TYPES")>>
        trace2 == trace1 \o <<Event("translate", "SYNC_TYPES")>>
    IN  IF ~externalType.ok THEN [outcome |-> externalType, trace |-> trace1]
        ELSE IF ~syncType.ok THEN [outcome |-> syncType, trace |-> trace2]
        ELSE
          LET syncJson == [SyncID |-> syncOutRecord.id,
                           RecordType |-> externalType.v,
                           RecordID |-> recordId,
                           SyncType |-> syncType.v,
                           StoreID |-> storeId]
          IN  IF IsDelete(changeType)
                THEN [outcome |-> Ok(syncJson), trace |-> trace2]
                ELSE Resolve(db, cfg, syncOutRecord, tz, notifyThrows,
                             storeId, syncJson, trace2)

----------------------------------------------------------------------------
(* The records of the store *)

MaxStore == 2        \* the most entities one table of the store holds

Entity(table, id, fields) ==
  [t |-> "object", table |-> table, id |-> Str(id)] @@ fields

Ref(id) == [t |-> "object", id |-> Str(id)]

Midnight == DateV(2024, 1, 15, 0, 0, 0)
Afternoon == DateV(2023, 12, 31, 13, 5, 9)

Ids == {"r1", "r2"}

ItemBatches ==
  {Entity("ItemBatch", id,
     [itemId |-> Str("item1"), packSize |-> Num(10), expiryDate |-> d,
      batch |-> Str("b1"), numberOfPacks |-> Num(3), totalQuantity |-> Num(30),
      costPrice |-> Num(2), sellPrice |-> Num(5)])
   : <<id, d>> \in {<<"r1", Midnight>>, <<"r1", Null>>, <<"r2", Afternoon>>}}

NumberSequences ==
  {Entity("NumberSequence", id,
     [sequenceKey |-> Str(k), highestNumberUsed |-> Num(7)])
   : <<id, k>> \in {<<"r1", "customer_invoice_serial_number">>,
                    <<"r1", "no_such_sequence">>,
                    <<"r2", "stocktake_serial_number">>}}

NumbersToReuse ==
  {Entity("NumberToReuse", id,
     [sequenceKey |-> Str("requisition_serial_number"), number |-> Num(4)])
   : id \in Ids}

Requisitions ==
  {Entity("Requisition", x[1],
     [entryDate |-> Midnight, enteredById |-> Str("user1"),
      otherStoreName |-> x[2], status |-> Str(x[3]), daysToSupply |-> Num(30),
      serialNumber |-> Str("12"), requesterReference |-> Str("ref"),
      comment |-> Str("c"), type |-> Str("request")])
   : x \in {<<"r1", Ref("name1"), "finalised">>, <<"r1", Null, "confirmed">>,
            <<"r1", Ref("name1"), "no_such_status">>,
            <<"r2", Null, "suggested">>}}

RequisitionItems ==
  {Entity("RequisitionItem", id,
     [requisitionId |-> Str("req1"), itemId |-> Str("item1"),
      stockOnHand |-> Num(8), dailyUsage |-> Num(1),
      suggestedQuantity |-> Num(22), suppliedQuantity |-> Num(0),
      sortIndex |-> Num(1), requiredQuantity |-> Num(20),
      comment |-> Str("c")])
   : id \in Ids}

Stocktakes ==
  {Entity("Stocktake", x[1],
     [name |-> Str("count"), stocktakeDate |-> x[3], createdBy |-> x[2],
      status |-> Str("finalised"), finalisedBy |-> x[2], additions |-> x[2],
      reductions |-> x[2], comment |-> Str("c"), createdDate |-> Midnight,
      serialNumber |-> Str("3")])
   : x \in {<<"r1", Ref("ref1"), Afternoon>>, <<"r1", Null, Null>>,
            <<"r2", Null, Afternoon>>}}

StocktakeBatches ==
  {Entity("StocktakeBatch", x[1],
     [stocktake |-> x[2], itemBatch |-> x[3],
      snapshotNumberOfPacks |-> Num(5), packSize |-> Num(10),
      expiryDate |-> Null, batch |-> Str("b1"), costPrice |-> Num(2),
      sellPrice |-> Num(5), countedNumberOfPacks |-> Num(4),
      sortIndex |-> Num(1)])
   : x \in {<<"r1", Ref("st1"), Ref("ib1") @@ [item |-> Ref("item1")]>>,
            <<"r1", Null, Null>>,
            <<"r1", Ref("st1"), Ref("ib1") @@ [item |-> Null]>>,
            <<"r2", Null, Null>>}}

Transactions ==
  {Entity("Transaction", x[1],
     [otherParty |-> x[2], serialNumber |-> Str("9"), comment |-> Str("c"),
      entryDate |-> Midnight, type |-> Str(x[3]), status |-> Str("confirmed"),
      totalPrice |-> Num(15), theirRef |-> Str("tr"),
      confirmDate |-> Afternoon, enteredBy |-> x[2], category |-> x[2],
      linkedRequisition |-> x[2]])
   : x \in {<<"r1", Ref("ref1"), "customer_invoice">>,
            <<"r1", Null, "supplier_invoice">>,
            <<"r1", Ref("ref1"), "no_such_type">>,
            <<"r2", Null, "customer_invoice">>}}

TransactionOf(type) ==
  Ref("t1") @@ [type |-> Str(type), isInventoryAdjustment |-> Bool(FALSE)]

TransactionBatches ==
  {Entity("TransactionBatch", x[1],
     [transaction |-> x[2], itemBatch |-> x[3], itemId |-> Str("item1"),
      batch |-> Str("b1"), totalPrice |-> Num(15), note |-> Str("n"),
      costPrice |-> Num(2), sellPrice |-> Num(5), expiryDate |-> Midnight,
      packSize |-> Num(10), numberOfPacks |-> Num(3), sortIndex |-> Num(1),
      itemName |-> Str("thing")])
   : x \in {<<"r1", TransactionOf("customer_invoice"), Ref("ib1")>>,
            <<"r1", TransactionOf("customer_invoice"), Null>>,
            <<"r1", Null, Ref("ib1")>>,
            <<"r1", Null, Null>>,
            <<"r1", TransactionOf("inventory_adjustment"), Ref("ib1")>>,
            <<"r2", TransactionOf("supplier_invoice"), Null>>}}

\* a table of the store that generateSyncData has no case for
Items ==
  {Entity("Item", id, [code |-> Str("code1"), name |-> Str("thing")])
   : id \in Ids}

Entities ==
  ItemBatches \cup NumberSequences \cup NumbersToReuse \cup Requisitions
    \cup RequisitionItems \cup Stocktakes \cup StocktakeBatches
    \cup Transactions \cup TransactionBatches \cup Items

SupportedTypes ==
  {"ItemBatch", "NumberSequence", "NumberToReuse", "Requisition",
   "RequisitionItem", "Stocktake", "StocktakeBatch", "Transaction",
   "TransactionBatch"}

Settings ==
  (THIS_STORE_ID :> Str("store-A")) @@ (SUPPLYING_STORE_NAME_ID :> Str("name-S"))
    @@ (SYNC_URL :> Str("https://sync.example")) @@ (SYNC_SITE_NAME :> Str("site-1"))

TimeZones == {-600, 780}

\* the sync-out records handed to generateSyncJson: none, one whose isValid()
\* is false, ones lacking a field, and well-formed ones
SyncOut(valid, id, recordType, recordId, changeType) ==
  [t |-> "object", valid |-> valid, id |-> id, recordType |-> recordType,
   recordId |-> recordId, changeType |-> Str(changeType)]

SyncOutRecords ==
  {Null, Undefined}
    \cup {SyncOut(FALSE, Str("s1"), Str("Item"), Str("r1"), "create")}
    \cup {SyncOut(TRUE, Undefined, Str("Item"), Str("r1"), "create"),
          SyncOut(TRUE, Str("s1"), Undefined, Str("r1"), "update"),
          SyncOut(TRUE, Str("s1"), Str(""), Str("r1"), "delete"),
          SyncOut(TRUE, Str("s1"), Str("Item"), Null, "delete")}
    \cup {SyncOut(TRUE, Str("s1"), Str(type), Str("r1"), changeType)
          : type \in DOMAIN RECORD_TYPES,
            changeType \in DOMAIN SYNC_TYPES}

----------------------------------------------------------------------------
(* The state machine *)

NoCall == [called |-> FALSE]

Init ==
  /\ database = EmptyBag
  /\ settings = Settings
  /\ tzOffset \in TimeZones
  /\ result = NoCall
  /\ prevResult = NoCall
  /\ dateCall = NoCall

\* a translation of syncOutRecord; notifyThrows is what bugsnag does with the
\* error, should the translation send it one
Translation(syncOutRecord, notifyThrows) ==
  LET call == generateSyncJson(database, settings, syncOutRecord, tzOffset,
                               notifyThrows)
  IN  [called |-> TRUE, syncOutRecord |-> syncOutRecord,
       outcome |-> call.outcome, trace |-> call.trace]

GenerateSyncJson ==
  \E syncOutRecord \in SyncOutRecords, notifyThrows \in BOOLEAN :
    /\ result' = Translation(syncOutRecord, notifyThrows)
    /\ prevResult' = IF result.called /\ result.syncOutRecord = syncOutRecord
                       THEN result ELSE NoCall
    /\ UNCHANGED <<database, settings, tzOffset, dateCall>>

\* the application writes the store. A translation reads the one table named
\* by its record (line 54), so the store is filled one table at a time; the
\* outcomes kept are those of the translations since the last write
DatabaseCreate ==
  \E e \in Entities :
    /\ BagCardinality(database) < MaxStore
    /\ \A x \in DOMAIN database : x.table = e.table
    /\ database' = database (+) SetToBag({e})
    /\ result' = NoCall
    /\ prevResult' = NoCall
    /\ UNCHANGED <<settings, tzOffset, dateCall>>

DatabaseDelete ==
  \E e \in DOMAIN database :
    /\ database' = database (-) SetToBag({e})
    /\ result' = NoCall
    /\ prevResult' = NoCall
    /\ UNCHANGED <<settings, tzOffset, dateCall>>

Next == GenerateSyncJson \/ DatabaseCreate \/ DatabaseDelete

Spec == Init /\ [][Next]_vars

----------------------------------------------------------------------------
(* getDateString on its own: the values a date attribute can hold, in the
   time zones of the devices *)

FirstYear == 2023
LastYear == 2024

DateTimeZones == {-720, -600, 0, 330, 780, 840}

Dates ==
  {DateV(y, m, d, hh, mi, 0) :
     y \in FirstYear..LastYear, m \in 1..12, d \in {1, 15, 28, 29, 30, 31},
     hh \in {0, 13}, mi \in {0}}

DateInputs ==
  {Undefined, Null, Str("2024-01-15"), Num(20240115)}
    \cup {date \in Dates : date.d <= DaysIn(date.y, date.m)}

InitDate ==
  /\ database = EmptyBag
  /\ settings = Settings
  /\ tzOffset \in DateTimeZones
  /\ result = NoCall
  /\ prevResult = NoCall
  /\ dateCall = NoCall

GetDateStringCall ==
  \E date \in DateInputs :
    /\ dateCall' = [called |-> TRUE, date |-> date,
                    out |-> getDateString(date, tzOffset)]
    /\ UNCHANGED <<database, settings, tzOffset, result, prevResult>>

NextDate == GetDateStringCall

SpecDate == InitDate /\ [][NextDate]_vars

----------------------------------------------------------------------------
(* What a translation shows its caller and its collaborators *)

Rec == result.syncOutRecord
Err == result.outcome.error
Returned == result.called /\ result.outcome.ok
Thrown == result.called /\ ~result.outcome.ok

\* the record is there, valid, and has its sync id, record type and record id
WellFormed(rec) ==
  /\ ~Falsy(rec)
  /\ rec.valid
  /\ ~Falsy(rec.recordType)
  /\ ~Falsy(rec.id)
  /\ ~Falsy(rec.recordId)

Deletes(rec) == rec.changeType = Str("delete")

\* the entities of the store the record refers to
Matching(rec) ==
  {e \in DOMAIN database : e.table = rec.recordType.s /\ e.id = rec.recordId}

MatchCount(rec) == BagCardinality([e \in Matching(rec) |-> database[e]])

TheMatch(rec) == CHOOSE e \in Matching(rec) : TRUE

TraceOps == {result.trace[i].op : i \in DOMAIN result.trace}

NotifyEvents == {i \in DOMAIN result.trace : result.trace[i].op = "notify"}

Reported(i) == result.trace[i].error

ProjectorThrew ==
  \E i \in DOMAIN result.trace :
    result.trace[i].op = "generateSyncData" /\ result.trace[i].arg = "threw"

EnvelopeFields == {"SyncID", "RecordType", "RecordID", "SyncType", "StoreID"}

UserMessage == "There was an error syncing. Contact mSupply mobile support. "

\* the error thrown to the caller is the one the reporter was given, with the
\* user's message
RethrowOf(reported) ==
  /\ Err.site = reported.site
  /\ Err.name = reported.name
  /\ Err.canDeleteSyncOut = reported.canDeleteSyncOut
  /\ Err.message[1] = UserMessage

\* the translation is of a create or update of a TransactionBatch that is in
\* the store once
OneTransactionBatch ==
  /\ result.called
  /\ WellFormed(Rec)
  /\ ~Deletes(Rec)
  /\ Rec.recordType = Str("TransactionBatch")
  /\ MatchCount(Rec) = 1

----------------------------------------------------------------------------
(* C1: a well-formed delete returns an envelope of SyncID, RecordType,
   RecordID, SyncType and StoreID with no Data, and the store is not
   queried. *)
C1_DeleteEnvelopeWithoutLookup ==
  result.called /\ WellFormed(Rec) /\ Deletes(Rec) =>
    /\ Returned
    /\ DOMAIN result.outcome.v = EnvelopeFields
    /\ result.outcome.v.SyncID = Rec.id
    /\ result.outcome.v.RecordID = Rec.recordId
    /\ "database.objects" \notin TraceOps

\* a delete of a record that is in the store has been translated
C1_Witness ==
  /\ result.called /\ WellFormed(Rec) /\ Deletes(Rec)
  /\ MatchCount(Rec) = 1
  /\ Returned

(* C2 as the specification states it: a create or update whose record is
   missing from the store, or in it more than once, throws and the reporter
   is called exactly once. *)
C2_LookupFailureReported ==
  result.called /\ WellFormed(Rec) /\ ~Deletes(Rec) /\ MatchCount(Rec) # 1 =>
    /\ Thrown
    /\ Cardinality(NotifyEvents) = 1

(* C2: a create or update whose record is missing from the store throws the
   missing error, one whose record is there more than once throws the
   multiple-records error; no envelope is returned, the reporter is not
   called, and the message is the one thrown. *)
C2_LookupFailureNotReported ==
  result.called /\ WellFormed(Rec) /\ ~Deletes(Rec) /\ MatchCount(Rec) # 1 =>
    /\ Thrown
    /\ MatchCount(Rec) = 0 =>
         /\ Err.site = "generateSyncJson:57"
         /\ Err.message = <<Rec.recordType.s, " with id = ", Rec.recordId.s,
                            " missing">>
    /\ MatchCount(Rec) > 1 =>
         /\ Err.site = "generateSyncJson:60"
         /\ Err.message = <<"Multiple ", Rec.recordType.s,
                            " records with id = ", Rec.recordId.s>>
    /\ ~Err.canDeleteSyncOut
    /\ NotifyEvents = {}
    /\ result.trace[Len(result.trace)].op = "database.objects"

\* a create or update of a record held twice has been translated
C2_Witness ==
  /\ result.called /\ WellFormed(Rec) /\ ~Deletes(Rec)
  /\ MatchCount(Rec) > 1
  /\ Thrown

(* C3: when the projection fails, the error that reaches the caller is the
   projection's error, with the user's message and its deletable mark, also
   when the reporter fails. *)
C3_ReporterFaultNeverMasks ==
  result.called /\ ProjectorThrew =>
    /\ Thrown
    /\ NotifyEvents # {}
    /\ \A i \in NotifyEvents : RethrowOf(Reported(i))

(* C4 as the specification states it: projecting a TransactionBatch whose
   itemBatch is absent throws safeGet's error, marked deletable and naming
   the path, and the mark is on the error rethrown with the user's message. *)
C4_AbsentItemBatchIsDeletable ==
  OneTransactionBatch /\ Falsy(TheMatch(Rec).itemBatch) =>
    /\ ProjectorThrew
    /\ \A i \in NotifyEvents :
         /\ Reported(i).site = "safeGet:279"
         /\ Reported(i).canDeleteSyncOut
         /\ Contains(Reported(i).message, "record.itemBatch.id")
    /\ Thrown
    /\ Err.message[1] = UserMessage => Err.canDeleteSyncOut

(* C4: projecting a TransactionBatch whose itemBatch is absent and whose
   transaction is present throws safeGet's error, marked deletable and with
   the path record.itemBatch.id in its message; the reporter is given that
   error, and the error rethrown with the user's message still has the
   mark. *)
C4_AbsentItemBatchOfTransactionIsDeletable ==
  /\ OneTransactionBatch
  /\ Falsy(TheMatch(Rec).itemBatch)
  /\ ~Falsy(TheMatch(Rec).transaction)
  =>
    /\ ProjectorThrew
    /\ Cardinality(NotifyEvents) = 1
    /\ \A i \in NotifyEvents :
         /\ Reported(i).site = "safeGet:279"
         /\ Reported(i).canDeleteSyncOut
         /\ Contains(Reported(i).message, "record.itemBatch.id")
    /\ Thrown
    /\ Err.message[1] = UserMessage =>
         /\ Err.canDeleteSyncOut
         /\ Err.site = "safeGet:279"
         /\ Contains(Err.message, "record.itemBatch.id")

\* the marked error has been rethrown with the user's message
C4_Witness ==
  /\ OneTransactionBatch
  /\ Falsy(TheMatch(Rec).itemBatch)
  /\ ~Falsy(TheMatch(Rec).transaction)
  /\ Thrown
  /\ Err.message[1] = UserMessage
  /\ Err.canDeleteSyncOut

(* C5: when generateSyncData throws for a create or update of a record that
   is in the store once, the reporter is called exactly once, as the last
   call of the translation, an error is thrown to the caller and no envelope
   is returned. *)
C5_ProjectorFailureEscalatedOnce ==
  /\ result.called /\ WellFormed(Rec) /\ ~Deletes(Rec)
  /\ MatchCount(Rec) = 1
  /\ ProjectorThrew
  =>
    /\ Cardinality(NotifyEvents) = 1
    /\ Len(result.trace) \in NotifyEvents
    /\ Thrown

\* a failed projection has been escalated
C5_Witness ==
  /\ result.called /\ WellFormed(Rec) /\ ~Deletes(Rec)
  /\ MatchCount(Rec) = 1
  /\ ProjectorThrew
  /\ Thrown

(* C6: a sync-out record that is null, not valid, or lacks its record type,
   its record id or its sync id is refused with an input error before any
   setting is read, any token translated or the store queried, and the
   reporter is not called. *)
C6_InvalidRecordRefusedFirst ==
  result.called /\ ~WellFormed(Rec) =>
    /\ Thrown
    /\ Err.site \in {"generateSyncJson:30", "generateSyncJson:32"}
    /\ ~Err.canDeleteSyncOut
    /\ result.trace = <<>>

\* a record without its record id has been refused
C6_Witness ==
  /\ result.called
  /\ ~Falsy(Rec) /\ Rec.valid /\ Falsy(Rec.recordId)
  /\ Thrown

(* C7 as the specification states it: every record of a type generateSyncData
   has no case for fails with the unsupported-type error, reported once and
   rethrown with the user's message, not marked deletable. *)
C7_UnsupportedTypeAlwaysEscalated ==
  result.called /\ WellFormed(Rec) /\ Rec.recordType.s \notin SupportedTypes =>
    /\ Thrown
    /\ Err.site = "generateSyncData:247"
    /\ Cardinality(NotifyEvents) = 1
    /\ Err.message[1] = UserMessage
    /\ ~Err.canDeleteSyncOut

(* C7: a create or update of a record that is in the store once and whose
   type generateSyncData has no case for fails: generateSyncData throws the
   unsupported-type error and builds no Data, the reporter is given that
   error exactly once, the error thrown to the caller is not marked
   deletable and, when the reporter returns, is that error with the user's
   message. *)
C7_UnsupportedTypeOfOneEntityEscalated ==
  /\ result.called /\ WellFormed(Rec) /\ ~Deletes(Rec)
  /\ Rec.recordType.s \notin SupportedTypes
  /\ MatchCount(Rec) = 1
  =>
    /\ ProjectorThrew
    /\ Thrown
    /\ Cardinality(NotifyEvents) = 1
    /\ \A i \in NotifyEvents :
         /\ Reported(i).site = "generateSyncData:247"
         /\ Err.name # "ReporterFault" => RethrowOf(Reported(i))
    /\ Err.name # "ReporterFault" =>
         Err.message = <<UserMessage, "Sync out record type not supported.">>
    /\ ~Err.canDeleteSyncOut

\* the unsupported-type error has reached the caller
C7_Witness ==
  /\ result.called /\ WellFormed(Rec) /\ ~Deletes(Rec)
  /\ Rec.recordType.s \notin SupportedTypes
  /\ MatchCount(Rec) = 1
  /\ Thrown
  /\ Err.site = "generateSyncData:247"

\* the same envelope, or an error of the same class from the same statement
SameOutcome(a, b) ==
  /\ a.ok = b.ok
  /\ a.ok => a.v = b.v
  /\ ~a.ok => /\ a.error.name = b.error.name
              /\ a.error.site = b.error.site
              /\ a.error.canDeleteSyncOut = b.error.canDeleteSyncOut

(* C8: two translations of the same sync-out record with no write to the
   store or the settings in between end the same way: the same envelope, or
   an error of the same class. *)
C8_SameOutcomeTwice ==
  result.called /\ prevResult.called =>
    SameOutcome(prevResult.outcome, result.outcome)

(* C9: getDateString of an absent or non-date value is 0000-00-00T00:00:00,
   and of a date at local midnight of day Y-M-D is Y-M-DT00:00:00, in every
   time zone. *)
C9_DateStringIsLocalDay ==
  dateCall.called =>
    /\ dateCall.date.t # "date" =>
         dateCall.out = Ok(Str("0000-00-00T00:00:00"))
    /\ dateCall.date.t = "date" /\ dateCall.date.hh = 0 /\ dateCall.date.mi = 0
         /\ dateCall.date.ss = 0 =>
         dateCall.out =
           Ok(Str(Pad4(dateCall.date.y) \o "-" \o Pad2(dateCall.date.m) \o "-"
                    \o Pad2(dateCall.date.d) \o "T00:00:00"))

(* C10: the error thrown to the caller is marked canDeleteSyncOut exactly
   when it is a getter fault inside safeGet; a missing record, a duplicated
   record, an unsupported type, an unknown token and a TransactionBatch
   without its transaction (with or without its itemBatch) reach the caller
   unmarked. *)
C10_DeletableOnlyFromSafeGet ==
  Thrown =>
    /\ Err.canDeleteSyncOut <=> Err.site = "safeGet:279"
    /\ Err.site \in {"generateSyncJson:57", "generateSyncJson:60",
                     "generateSyncData:247", "translate",
                     "generateSyncData:227"} => ~Err.canDeleteSyncOut
    /\ OneTransactionBatch /\ Falsy(TheMatch(Rec).transaction) =>
         /\ ~Err.canDeleteSyncOut
         /\ \A i \in NotifyEvents :
              /\ Reported(i).site = "generateSyncData:227"
              /\ ~Reported(i).canDeleteSyncOut

\* a TransactionBatch with neither transaction nor itemBatch has failed
\* unmarked
C10_Witness ==
  /\ OneTransactionBatch
  /\ Falsy(TheMatch(Rec).transaction)
  /\ Falsy(TheMatch(Rec).itemBatch)
  /\ Thrown
  /\ Err.site = "generateSyncData:227"
  /\ ~Err.canDeleteSyncOut

\* the message generateSyncData threw with for the record translated
OriginalMessage ==
  generateSyncData(settings, Rec.recordType.s, TheMatch(Rec), tzOffset)
    .error.message

\* the message made helpful for the reporter: the site name, the server URL,
\* the sync id, the store id, the change type, the record type, the record id
\* and the original message
EnrichedMessage ==
  <<"SYNC OUT ERROR. siteName: ", settings[SYNC_SITE_NAME].s,
    ", serverUrl: ", settings[SYNC_URL].s,
    ", syncOutRecord.id: ", Rec.id.s,
    ", storeId: ", settings[THIS_STORE_ID].s,
    " changeType: ", Rec.changeType.s,
    ", recordType: ", Rec.recordType.s,
    ", recordId: ", Rec.recordId.s,
    ", message: ">> \o OriginalMessage

\* the site name and the server URL are read, in that order, right before the
\* reporter is called at step i, and nothing is called after the reporter
ReportedLast(i) ==
  /\ i = Len(result.trace)
  /\ i > 2
  /\ result.trace[i - 2] = Event("settings.get", SYNC_SITE_NAME)
  /\ result.trace[i - 1] = Event("settings.get", SYNC_URL)

(* C11: when generateSyncData throws, the reporter is called once, as the
   last call, with the error carrying the enriched message (site name, server
   URL, sync id, store id, change type, record type, record id, original
   message) and not the user's message; the error thrown to the caller
   carries the user's message followed by the original message, and neither
   the site name nor the server URL. *)
C11_EnrichedReportedThenUserMessageThrown ==
  result.called /\ ProjectorThrew =>
    /\ Cardinality(NotifyEvents) = 1
    /\ \A i \in NotifyEvents :
         /\ ReportedLast(i)
         /\ Reported(i).message = EnrichedMessage
         /\ ~Contains(Reported(i).message, UserMessage)
    /\ Thrown
    /\ Err.message = <<UserMessage>> \o OriginalMessage
    /\ ~Contains(Err.message, settings[SYNC_SITE_NAME].s)
    /\ ~Contains(Err.message, settings[SYNC_URL].s)

\* the payload fields resolved by ref && ref.id: record type, payload field,
\* attribute of the entity holding the reference
AndFields ==
  {<<"Requisition", "name_ID", "otherStoreName">>,
   <<"Stocktake", "created_by_ID", "createdBy">>,
   <<"Stocktake", "finalised_by_ID", "finalisedBy">>,
   <<"Stocktake", "invad_additions_ID", "additions">>,
   <<"Stocktake", "invad_reductions_ID", "reductions">>,
   <<"StocktakeBatch", "stock_take_ID", "stocktake">>,
   <<"Transaction", "name_ID", "otherParty">>,
   <<"Transaction", "user_ID", "enteredBy">>,
   <<"Transaction", "category_ID", "category">>}

\* the payload field resolved by ref && ref.id ? ref.id : undefined
TernaryFields == {<<"Transaction", "requisition_ID", "linkedRequisition">>}

\* the translation returned an envelope with the payload of the record
Projected == Returned /\ "Data" \in DOMAIN result.outcome.v

Data == result.outcome.v.Data

\* field f belongs to the payload returned and the entity has no reference
\* behind it
AbsentIn(f) ==
  /\ Rec.recordType.s = f[1]
  /\ IsNullish(TheMatch(Rec)[f[3]])

\* field f belongs to the payload returned and the entity has a reference
\* behind it
PresentIn(f) ==
  /\ Rec.recordType.s = f[1]
  /\ ~IsNullish(TheMatch(Rec)[f[3]])

(* C12 as the specification states it: in a payload returned, every
   optional-reference field whose referenced entity is absent has the omitted
   value, undefined, never null. *)
C12_AbsentReferenceOmitted ==
  Projected =>
    \A f \in AndFields \cup TernaryFields :
      AbsentIn(f) => Data[f[2]] = Undefined

(* C12: in a payload returned, a field resolved by ref && ref.id whose
   reference is absent carries the absent reference itself, null as the store
   holds it, and is not omitted; Transaction.requisition_ID, resolved by the
   conditional, is undefined when its reference is absent; a field whose
   reference is present carries the id of the entity referred to. *)
C12_AbsentReferenceIsNullButForRequisitionId ==
  Projected =>
    /\ \A f \in AndFields :
         /\ AbsentIn(f) =>
              /\ Data[f[2]] = TheMatch(Rec)[f[3]]
              /\ Data[f[2]] = Null
         /\ PresentIn(f) => Data[f[2]] = TheMatch(Rec)[f[3]].id
    /\ \A f \in TernaryFields :
         /\ AbsentIn(f) => Data[f[2]] = Undefined
         /\ PresentIn(f) => Data[f[2]] = TheMatch(Rec)[f[3]].id

\* a Transaction without its other party and its linked requisition has been
\* projected: name_ID is null and requisition_ID is undefined
C12_Witness ==
  /\ Projected
  /\ Rec.recordType = Str("Transaction")
  /\ TheMatch(Rec).otherParty = Null
  /\ TheMatch(Rec).linkedRequisition = Null
  /\ Data.name_ID = Null
  /\ Data.requisition_ID = Undefined

====
